---- MODULE Spec2Model ----
(***************************************************************************)
(* QNEthernet: the datagram channel (EthernetUDP, QNEthernetUDP.cpp) and   *)
(* the raw frame channel (EthernetFrameClass, QNEthernetFrame.cpp) as a    *)
(* state machine.  The lwIP stack is the environment: it allocates and     *)
(* removes control blocks, delivers pbuf chains to the receive callbacks   *)
(* and accepts what the channels hand to its transmit primitives.          *)
(***************************************************************************)
EXTENDS Integers, Sequences, FiniteSets, TLC

\* ------------------------------------------------------------------ bounds
\* Longest message (arriving chain, or bytes written between begin and end).
MaxLen == 2

\* Length of the long buffers handed to write(buffer, size): past UINT16_MAX.
BigLen == 65537

\* ------------------------------------------------------- program constants
UINT16_MAX == 65535
ETHTYPE_VLAN == 33024
\* A uint32_t address value is written as its four bytes, most significant
\* first.  INADDR_NONE is 0xFFFFFFFF; outIpaddr_ is constructed as 0.
INADDR_NONE == <<255, 255, 255, 255>>
IPADDR_ZERO == <<0, 0, 0, 0>>

\* nullptr, and the one control block udp_new() hands out.
NULL == 0
PCB == 1

\* beginPacket(host, port): "timer < 2000" after each "delay(10)".
DNS_TIMEOUT == 2000
DNS_POLL == 10

\* ------------------------------------------------------------ input sets
Bytes == {170, 187}
\* (address, port) pairs of remote senders and of destinations.
Endpoints == {<<<<10, 0, 0, 5>>, 9000>>, <<<<192, 168, 1, 1>>, 5000>>}
\* Group arguments of beginMulticast: one whose uint32_t value passes the
\* code's test, one whose value does not.
Groups == {<<224, 0, 0, 1>>, <<10, 0, 0, 5>>}
MACs == {<<1, 2, 3, 4, 5, 6>>, <<255, 255, 255, 255, 255, 255>>}
EtherTypes == {2048, 35020}
VLANInfos == {4106}
\* Host names given to beginPacket(host, port), and the address the resolver
\* holds for each.
Hosts == {"a.example", "b.example"}
HostAddr(h) == IF h = "a.example" THEN <<10, 0, 0, 5>> ELSE <<192, 168, 1, 1>>
Ports == {9000}

Min(a, b) == IF a < b THEN a ELSE b
Take(s, n) == SubSeq(s, 1, n)
SeqsUpTo(S, n) == UNION {[1..k -> S] : k \in 0..n}

\* The messages that arrive (datagram payloads, link-layer frames).
Messages == SeqsUpTo(Bytes, MaxLen)

RECURSIVE Splits(_, _)
\* The pbuf chains of k segments the stack may deliver message m in.
Splits(m, k) ==
  IF k = 1
    THEN {<<m>>}
    ELSE UNION {{<<SubSeq(m, 1, i)>> \o r :
                   r \in Splits(SubSeq(m, i + 1, Len(m)), k - 1)} :
                i \in 0..Len(m)}
\* A message arrives whole or cut in two segments at any place (an empty
\* segment included).
ChainsOf(m) == Splits(m, 1) \cup Splits(m, 2)

\* The buffers an application hands to write(buffer, size).
Buffers == SeqsUpTo(Bytes, MaxLen)

\* A long buffer (byte i is 3 * i mod 251, so no two stretches of it are
\* alike), and the sizes given with it: around the limit of one call.
BigBuffers == {[i \in 1..BigLen |-> (3 * i) % 251]}
BigSizes == {0, 1, UINT16_MAX - 1, UINT16_MAX, UINT16_MAX + 1, BigLen}

VARIABLES
  \* EthernetUDP's fields
  pcb_, inPacket_, packet_, packetPos_, inAddr_, inPort_,
  hasOutPacket_, outIpaddr_, outPort_, outPacket_,
  \* the stack's side of the datagram channel
  livePcbs,      \* control blocks allocated by udp_new and not yet removed
  recvReg,       \* udp_recv has registered recvFunc on the live block
  \* EthernetUDP's name resolution request
  lookupHost_, lookupIP_, lookupFound_,
  dnsPending,    \* host names the resolver has a request in progress for
  \* the application thread: where it stands inside an operation that is
  \* modelled in steps ("idle" between operations), the port argument and
  \* the elapsedMillis timer of a beginPacket(host, port) that is waiting
  pc, lport, timer,
  entry,         \* inPacket_ as it was when the parsePacket() in progress began
  \* EthernetFrameClass's fields
  inFrame_, frame_, framePos_, hasOutFrame_, outFrame_,
  \* what the last operation was, what it returned, what it handed to a
  \* transmit primitive of the stack
  op, ret, tx,
  \* the arguments of the last operation that the properties speak of, and
  \* what it exchanged besides its return value: the bytes read(buffer, len)
  \* copied into buffer, the calls of EthernetClass::loop() and what the
  \* receive hook staged during them, the name and address a resolver
  \* callback was given; NoIo for every other operation
  io,
  \* history of the calls made, for stating the properties
  given,         \* bytes handed to write() since the last beginPacket that opened staging
  dest,          \* <<address, port>> given to the last beginPacket that opened staging
  fgiven,        \* bytes handed to write() by the application since the last beginFrame
  hdr,           \* the arguments of the last beginFrame / beginVLANFrame, or <<>>
  arrivals,      \* receive callbacks completed since the last parsePacket (0, 1, 2 = more)
  latest,        \* the last arrival still in the slot: [data, addr, port], else NoArrival
  claimed        \* the arrival the last parsePacket took out of the slot, with
                 \* n = arrivals at that call; NoClaim when it took none

udpVars ==
  <<pcb_, inPacket_, packet_, packetPos_, inAddr_, inPort_,
    hasOutPacket_, outIpaddr_, outPort_, outPacket_, livePcbs, recvReg,
    given, dest, arrivals, latest, claimed>>
frameVars ==
  <<inFrame_, frame_, framePos_, hasOutFrame_, outFrame_, fgiven, hdr>>
lookupVars == <<lookupHost_, lookupIP_, lookupFound_, dnsPending>>
threadVars == <<pc, lport, timer, entry>>
vars == <<udpVars, lookupVars, threadVars, frameVars, op, ret, tx, io>>

NoTx == [fn |-> "none"]
NoIo == [fn |-> "none"]
NoArrival == [data |-> <<>>, addr |-> INADDR_NONE, port |-> 0]
NoClaim == [data |-> <<>>, addr |-> INADDR_NONE, port |-> 0, n |-> 0]

\* ---------------------------------------------------------- buffer staging
RECURSIVE Stage(_)
\* The while loop of recvFunc: every segment's bytes appended in chain order.
Stage(chain) ==
  IF chain = <<>> THEN <<>> ELSE Head(chain) \o Stage(Tail(chain))

\* ------------------------------------------------------------ construction
UDP_Init ==
  /\ pcb_ = NULL
  /\ inPacket_ = <<>>
  /\ packet_ = <<>>
  /\ packetPos_ = -1
  /\ inAddr_ = INADDR_NONE
  /\ inPort_ = 0
  /\ hasOutPacket_ = FALSE
  /\ outIpaddr_ = IPADDR_ZERO
  /\ outPort_ = 0
  /\ outPacket_ = <<>>
  /\ livePcbs = 0
  /\ recvReg = FALSE
  /\ given = <<>>
  /\ dest = <<>>
  /\ arrivals = 0
  /\ latest = NoArrival
  /\ claimed = NoClaim

Frame_Init ==
  /\ inFrame_ = <<>>
  /\ frame_ = <<>>
  /\ framePos_ = -1
  /\ hasOutFrame_ = FALSE
  /\ outFrame_ = <<>>
  /\ fgiven = <<>>
  /\ hdr = <<>>

\* The name resolution request before any lookup: no host name, the
\* resolved address at its "none" sentinel, nothing found; the resolver has
\* no request in progress.
UDP_LookupInit ==
  /\ lookupHost_ = ""
  /\ lookupIP_ = INADDR_NONE
  /\ lookupFound_ = FALSE
  /\ dnsPending = {}

Init ==
  /\ UDP_Init
  /\ UDP_LookupInit
  /\ Frame_Init
  /\ pc = "idle"
  /\ lport = 0
  /\ timer = 0
  /\ entry = <<>>
  /\ op = "init"
  /\ ret = 0
  /\ tx = NoTx
  /\ io = NoIo

\* ================================================================ EthernetUDP
inVars == <<inPacket_, packet_, packetPos_, inAddr_, inPort_, arrivals, latest, claimed>>
outVars == <<hasOutPacket_, outIpaddr_, outPort_, outPacket_, given, dest>>
pcbVars == <<pcb_, livePcbs, recvReg>>

\* udp_new(): a fresh control block, or nullptr when the stack has none left.
udp_new(ok) == IF ok THEN PCB ELSE NULL

\* "if (pcb_ == nullptr) pcb_ = udp_new();"
UDP_ensurePcb(ok) == IF pcb_ = NULL THEN udp_new(ok) ELSE pcb_
\* the stack's count of live blocks after that statement
UDP_liveAfterEnsure(ok) ==
  IF pcb_ = NULL /\ udp_new(ok) # NULL THEN livePcbs + 1 ELSE livePcbs

\* begin(localPort)
UDP_begin ==
  \E newOk \in BOOLEAN, bindOk \in BOOLEAN :
    /\ op' = "begin"
    /\ tx' = NoTx
    /\ pcb_' = UDP_ensurePcb(newOk)
    /\ livePcbs' = UDP_liveAfterEnsure(newOk)
    /\ IF pcb_' = NULL
         THEN ret' = 0 /\ UNCHANGED recvReg
         ELSE IF ~bindOk
           THEN ret' = 0 /\ UNCHANGED recvReg
           ELSE ret' = 1 /\ recvReg' = TRUE
    /\ UNCHANGED <<inVars, outVars>>

\* "(static_cast<uint32_t>(ip) & 0xF0000000) != 0xE0000000" is false
UDP_isMulticast(ip) == ip[1] \div 16 = 14

\* beginMulticast(ip, localPort)
UDP_beginMulticast ==
  \E ip \in Groups, newOk \in BOOLEAN, bindOk \in BOOLEAN :
    /\ op' = "beginMulticast"
    /\ tx' = NoTx
    /\ pcb_' = UDP_ensurePcb(newOk)
    /\ livePcbs' = UDP_liveAfterEnsure(newOk)
    /\ IF pcb_' = NULL
         THEN ret' = 0 /\ UNCHANGED recvReg
         ELSE IF ~UDP_isMulticast(ip)
           THEN ret' = 0 /\ UNCHANGED recvReg
           ELSE IF ~bindOk
             THEN ret' = 0 /\ UNCHANGED recvReg
             ELSE ret' = 1 /\ recvReg' = TRUE
    /\ UNCHANGED <<inVars, outVars>>

\* stop() without "pcb_ = nullptr"
UDP_stopBody_keepPointer ==
  IF pcb_ = NULL
    THEN UNCHANGED pcbVars
    ELSE /\ livePcbs' = livePcbs - 1
         /\ recvReg' = FALSE
         /\ UNCHANGED pcb_

\* The body of stop(): udp_remove(pcb_) and pcb_ = nullptr, when there is one.
UDP_stopBody ==
  IF pcb_ = NULL
    THEN UNCHANGED pcbVars
    ELSE /\ livePcbs' = livePcbs - 1
         /\ recvReg' = FALSE
         /\ pcb_' = NULL

UDP_stop ==
  /\ op' = "stop"
  /\ ret' = 0
  /\ tx' = NoTx
  /\ UDP_stopBody
  /\ UNCHANGED <<inVars, outVars>>

\* recvFunc without its clear(): the arrival appended to what the slot held.
UDP_recvStage_noClear(old, chain) == old \o Stage(chain)

\* What recvFunc leaves in inPacket_: clear(), then every segment appended.
UDP_recvStage(old, chain) == Stage(chain)

\* recvFunc with a pbuf chain: the stack calls it with the registered
\* argument and the live block, so the nullptr guard of lines 44-46 passes.
UDP_recvFunc ==
  \E m \in Messages, from \in Endpoints : \E chain \in ChainsOf(m) :
    /\ pcb_ # NULL /\ recvReg
    /\ op' = "recvFunc"
    /\ ret' = 0
    /\ tx' = NoTx
    /\ inPacket_' = UDP_recvStage(inPacket_, chain)
    /\ inAddr_' = from[1]
    /\ inPort_' = from[2]
    /\ arrivals' = Min(arrivals + 1, 2)
    /\ latest' = [data |-> m, addr |-> from[1], port |-> from[2]]
    /\ UNCHANGED <<packet_, packetPos_, claimed, outVars, pcbVars>>

\* recvFunc with p == nullptr: stop().
UDP_recvFuncNull ==
  /\ pcb_ # NULL /\ recvReg
  /\ op' = "recvFuncNull"
  /\ ret' = 0
  /\ tx' = NoTx
  /\ UDP_stopBody
  /\ UNCHANGED <<inVars, outVars>>

\* ---------------------------------------------------------------- reception
\* The cursor parsePacket leaves, from the size of the claimed packet_.
UDP_parsePos(size, pos) == IF size > 0 THEN 0 ELSE -1

UDP_parsePacket ==
  /\ op' = "parsePacket"
  /\ tx' = NoTx
  /\ arrivals' = 0
  /\ IF pcb_ = NULL
       THEN /\ ret' = 0
            /\ claimed' = NoClaim
            /\ UNCHANGED <<packet_, inPacket_, packetPos_, latest>>
       ELSE /\ packet_' = inPacket_
            /\ inPacket_' = <<>>
            /\ packetPos_' = UDP_parsePos(Len(packet_'), packetPos_)
            /\ ret' = Len(packet_')
            /\ claimed' = IF Len(latest.data) > 0
                             THEN [data |-> latest.data, addr |-> latest.addr,
                                   port |-> latest.port, n |-> arrivals]
                             ELSE NoClaim
            /\ latest' = NoArrival
  /\ UNCHANGED <<inAddr_, inPort_, outVars, pcbVars>>

\* parsePacket() statement by statement, for the runs in which recvFunc is
\* called from an interrupt and so between any two of them.  `arrivals`
\* counts the callbacks since the call began.
UDP_parsePacket_enter ==
  /\ pc = "idle"
  /\ tx' = NoTx
  /\ io' = NoIo
  /\ ret' = 0
  /\ arrivals' = 0
  /\ IF pcb_ = NULL
       THEN op' = "parsePacket" /\ UNCHANGED <<pc, entry>>
       ELSE /\ op' = "parsePacket.enter"
            /\ pc' = "parsePacket.copy"
            /\ entry' = inPacket_
  /\ UNCHANGED <<inPacket_, packet_, packetPos_, inAddr_, inPort_, latest,
                 claimed, outVars, pcbVars, lport, timer>>

\* "packet_ = inPacket_;"
UDP_parsePacket_copy ==
  /\ pc = "parsePacket.copy"
  /\ op' = "parsePacket.copy"
  /\ tx' = NoTx
  /\ io' = NoIo
  /\ ret' = 0
  /\ packet_' = inPacket_
  /\ pc' = "parsePacket.clear"
  /\ UNCHANGED <<inPacket_, packetPos_, inAddr_, inPort_, arrivals, latest,
                 claimed, outVars, pcbVars, lport, timer, entry>>

\* "inPacket_.clear();"
UDP_parsePacket_clear ==
  /\ pc = "parsePacket.clear"
  /\ op' = "parsePacket.clear"
  /\ tx' = NoTx
  /\ io' = NoIo
  /\ ret' = 0
  /\ inPacket_' = <<>>
  /\ pc' = "parsePacket.return"
  /\ UNCHANGED <<packet_, packetPos_, inAddr_, inPort_, arrivals, latest,
                 claimed, outVars, pcbVars, lport, timer, entry>>

\* "if (packet_.size() > 0) ... else ...": the cursor and the return
UDP_parsePacket_return ==
  /\ pc = "parsePacket.return"
  /\ op' = "parsePacket"
  /\ tx' = NoTx
  /\ io' = NoIo
  /\ packetPos_' = UDP_parsePos(Len(packet_), packetPos_)
  /\ ret' = Len(packet_)
  /\ pc' = "idle"
  /\ entry' = <<>>
  /\ UNCHANGED <<inPacket_, packet_, inAddr_, inPort_, arrivals, latest,
                 claimed, outVars, pcbVars, lport, timer>>

UDP_isAvailable(pkt, pos) == 0 <= pos /\ pos < Len(pkt)

UDP_availableRet(pkt, pos) ==
  IF ~UDP_isAvailable(pkt, pos) THEN 0 ELSE Len(pkt) - pos

UDP_available ==
  /\ op' = "available"
  /\ ret' = UDP_availableRet(packet_, packetPos_)
  /\ tx' = NoTx
  /\ UNCHANGED udpVars

\* read(): "return packet_[packetPos_++]" (indices from 0 in the source)
UDP_readRet(pkt, pos) == IF ~UDP_isAvailable(pkt, pos) THEN -1 ELSE pkt[pos + 1]
\* read() advancing the cursor whether or not a byte is available
UDP_readPos_unchecked(pkt, pos) == pos + 1
UDP_readPos(pkt, pos) == IF ~UDP_isAvailable(pkt, pos) THEN pos ELSE pos + 1

UDP_read ==
  /\ op' = "read"
  /\ ret' = UDP_readRet(packet_, packetPos_)
  /\ packetPos_' = UDP_readPos(packet_, packetPos_)
  /\ tx' = NoTx
  /\ UNCHANGED <<inPacket_, packet_, inAddr_, inPort_, arrivals, latest,
                 claimed, outVars, pcbVars>>

\* read(buffer, len): the count copied
UDP_readBufRet(pkt, pos, len) ==
  IF len = 0 \/ ~UDP_isAvailable(pkt, pos) THEN 0 ELSE Min(len, Len(pkt) - pos)

\* read(buffer, len) copying from the start of packet_, not from the cursor
UDP_readBufCopy_fromStart(pkt, pos, len) ==
  SubSeq(pkt, 1, UDP_readBufRet(pkt, pos, len))

\* read(buffer, len): what std::copy_n leaves in buffer
UDP_readBufCopy(pkt, pos, len) ==
  SubSeq(pkt, pos + 1, pos + UDP_readBufRet(pkt, pos, len))

UDP_readBuf ==
  \E len \in 0..MaxLen :
    /\ op' = "readBuf"
    /\ io' = [fn |-> "read", len |-> len,
              buffer |-> UDP_readBufCopy(packet_, packetPos_, len)]
    /\ ret' = UDP_readBufRet(packet_, packetPos_, len)
    /\ packetPos_' = packetPos_ + UDP_readBufRet(packet_, packetPos_, len)
    /\ tx' = NoTx
    /\ UNCHANGED <<inPacket_, packet_, inAddr_, inPort_, arrivals, latest,
                   claimed, outVars, pcbVars>>

UDP_peekRet(pkt, pos) == IF ~UDP_isAvailable(pkt, pos) THEN -1 ELSE pkt[pos + 1]
\* peek() written with read()'s "packetPos_++"
UDP_peekPos_advancing(pkt, pos) ==
  IF ~UDP_isAvailable(pkt, pos) THEN pos ELSE pos + 1
\* peek() assigns nothing: the cursor it leaves
UDP_peekPos(pkt, pos) == pos

UDP_peek ==
  /\ op' = "peek"
  /\ ret' = UDP_peekRet(packet_, packetPos_)
  /\ packetPos_' = UDP_peekPos(packet_, packetPos_)
  /\ tx' = NoTx
  /\ UNCHANGED <<inPacket_, packet_, inAddr_, inPort_, arrivals, latest,
                 claimed, outVars, pcbVars>>

\* flush() leaving the cursor where it is
UDP_flushPos_kept(pos) == pos

\* "packetPos_ = -1;"
UDP_flushPos(pos) == -1

UDP_flush ==
  /\ op' = "flush"
  /\ ret' = 0
  /\ packetPos_' = UDP_flushPos(packetPos_)
  /\ tx' = NoTx
  /\ UNCHANGED <<inPacket_, packet_, inAddr_, inPort_, arrivals, latest,
                 claimed, outVars, pcbVars>>

UDP_remoteIP ==
  /\ op' = "remoteIP"
  /\ ret' = inAddr_
  /\ tx' = NoTx
  /\ UNCHANGED udpVars

UDP_remotePort ==
  /\ op' = "remotePort"
  /\ ret' = inPort_
  /\ tx' = NoTx
  /\ UNCHANGED udpVars

\* ------------------------------------------------------------- transmission
\* The body of beginPacket(ip, port).  It never assigns outPort_.
UDP_beginPacketBody(ip, port, newOk) ==
  /\ pcb_' = UDP_ensurePcb(newOk)
  /\ livePcbs' = UDP_liveAfterEnsure(newOk)
  /\ IF pcb_' = NULL
       THEN /\ ret' = 0
            /\ UNCHANGED outVars
       ELSE /\ outIpaddr_' = ip
            /\ hasOutPacket_' = TRUE
            /\ outPacket_' = <<>>
            /\ ret' = 1
            /\ given' = <<>>
            /\ dest' = <<ip, port>>
            /\ UNCHANGED outPort_
  /\ UNCHANGED <<inVars, recvReg>>

\* beginPacket(ip, port)
UDP_beginPacket ==
  \E to \in Endpoints, newOk \in BOOLEAN :
    /\ op' = "beginPacket"
    /\ tx' = NoTx
    /\ UDP_beginPacketBody(to[1], to[2], newOk)

\* ---------------------------------------------------------- name resolution
\* What dns_gethostbyname(host, &addr, &dnsFoundFunc, this) reports: the
\* address is in addr, the request is in progress and dnsFoundFunc will be
\* called, or an error.
DnsResults == {"ERR_OK", "ERR_INPROGRESS", "ERR_ARG"}

\* dnsFoundFunc publishing whatever name it is called for
UDP_dnsAccepts_anyName(lookupHost, name) == TRUE

\* "if (udp->lookupHost_ == name)"
UDP_dnsAccepts(lookupHost, name) == lookupHost = name

\* dnsFoundFunc(name, ipaddr, callback_arg), called by the resolver for a
\* request in progress with the channel as callback_arg; ipaddr is the
\* address of `name`, or nullptr when the lookup failed (found = FALSE).
UDP_dnsFoundFunc ==
  \E name \in dnsPending, found \in BOOLEAN :
    /\ op' = "dnsFoundFunc"
    /\ ret' = 0
    /\ tx' = NoTx
    /\ io' = [fn |-> "dnsFoundFunc", name |-> name, found |-> found]
    /\ dnsPending' = dnsPending \ {name}
    /\ IF ~found
         THEN UNCHANGED <<lookupIP_, lookupFound_>>
         ELSE IF UDP_dnsAccepts(lookupHost_, name)
           THEN lookupIP_' = HostAddr(name) /\ lookupFound_' = TRUE
           ELSE UNCHANGED <<lookupIP_, lookupFound_>>
    /\ UNCHANGED <<lookupHost_, udpVars, frameVars, threadVars>>

\* beginPacket(host, port) up to the switch: the request is set up and
\* dns_gethostbyname called.  On ERR_OK and on an error the call ends here;
\* on ERR_INPROGRESS the timer starts and the thread enters the do-loop.
UDP_beginPacketHost ==
  \E host \in Hosts, port \in Ports, err \in DnsResults, newOk \in BOOLEAN :
    /\ pc = "idle"
    /\ tx' = NoTx
    /\ io' = [fn |-> "dns_gethostbyname", host |-> host, err |-> err]
    /\ lookupHost_' = host
    /\ lookupIP_' = INADDR_NONE
    /\ lookupFound_' = FALSE
    /\ CASE err = "ERR_OK" ->
              /\ op' = "beginPacketHost"
              /\ UDP_beginPacketBody(HostAddr(host), port, newOk)
              /\ UNCHANGED <<dnsPending, threadVars>>
         [] err = "ERR_INPROGRESS" ->
              /\ op' = "beginPacketHost.wait"
              /\ ret' = 0
              /\ dnsPending' = dnsPending \cup {host}
              /\ pc' = "beginPacket.wait"
              /\ lport' = port
              /\ timer' = 0
              /\ UNCHANGED udpVars
         [] OTHER ->
              /\ op' = "beginPacketHost"
              /\ ret' = 0
              /\ UNCHANGED <<udpVars, dnsPending, threadVars>>
    /\ UNCHANGED <<entry, frameVars>>

\* the do-loop of beginPacket(host, port) without "timer < 2000"
UDP_dnsKeepWaiting_noTimeout(ip, t) == ip = INADDR_NONE

\* "while (lookupIP_ == INADDR_NONE && timer < 2000)"
UDP_dnsKeepWaiting(ip, t) == ip = INADDR_NONE /\ t < DNS_TIMEOUT

\* One turn of the do-loop: delay(10) has returned (the callbacks that ran
\* during it are steps of their own), then the loop test; when the loop
\* ends, the rest of the call.
UDP_beginPacketWait ==
  \E newOk \in BOOLEAN :
    /\ pc = "beginPacket.wait"
    /\ tx' = NoTx
    /\ IF UDP_dnsKeepWaiting(lookupIP_, timer + DNS_POLL)
         THEN /\ op' = "beginPacketHost.wait"
              /\ ret' = 0
              /\ io' = NoIo
              /\ timer' = timer + DNS_POLL
              /\ UNCHANGED <<pc, lport, udpVars>>
         ELSE /\ op' = "beginPacketHost"
              /\ io' = [fn |-> "elapsedMillis", timer |-> timer + DNS_POLL]
              /\ pc' = "idle"
              /\ lport' = 0
              /\ timer' = 0
              /\ IF lookupFound_
                   THEN UDP_beginPacketBody(lookupIP_, lport, newOk)
                   ELSE ret' = 0 /\ UNCHANGED udpVars
    /\ UNCHANGED <<lookupVars, entry, frameVars>>

\* A pbuf argument: the null pointer, or a buffer holding data.
NullPbuf == [null |-> TRUE, data |-> <<>>]
Pbuf(data) == [null |-> FALSE, data |-> data]

\* The pbuf argument of the udp_sendto call in endPacket, p being the buffer
\* that pbuf_alloc and pbuf_take filled from outPacket_: the call names
\* nullptr, not p.
UDP_sendtoPbuf(p) == NullPbuf

\* endPacket(): pbuf_alloc may fail; udp_sendto reports ERR_OK or an error.
UDP_endPacket ==
  \E allocOk \in BOOLEAN, sendOk \in BOOLEAN :
    /\ op' = "endPacket"
    /\ IF ~hasOutPacket_
         THEN /\ ret' = 0
              /\ tx' = NoTx
              /\ UNCHANGED <<hasOutPacket_, outPacket_>>
         ELSE /\ hasOutPacket_' = FALSE
              /\ IF ~allocOk
                   THEN /\ ret' = 0
                        /\ tx' = NoTx
                        /\ UNCHANGED outPacket_
                   ELSE /\ outPacket_' = <<>>
                        /\ tx' = [fn |-> "udp_sendto", pcb |-> pcb_,
                                  p |-> UDP_sendtoPbuf(Pbuf(outPacket_)),
                                  addr |-> outIpaddr_, port |-> outPort_]
                        /\ ret' = IF sendOk THEN 1 ELSE 0
    /\ UNCHANGED <<inVars, pcbVars, outIpaddr_, outPort_, given, dest>>

\* write(b): the count returned
UDP_writeByteRet(has) == IF ~has THEN 0 ELSE 1

UDP_writeByte ==
  \E b \in Bytes :
    /\ hasOutPacket_ => Len(outPacket_) < MaxLen
    /\ op' = "writeByte"
    /\ tx' = NoTx
    /\ ret' = UDP_writeByteRet(hasOutPacket_)
    /\ IF ret' = 0
         THEN UNCHANGED <<outPacket_, given>>
         ELSE /\ outPacket_' = Append(outPacket_, b)
              /\ given' = Append(given, b)
    /\ UNCHANGED <<inVars, pcbVars, hasOutPacket_, outIpaddr_, outPort_, dest>>

\* write(buffer, size) without "if (size > UINT16_MAX) size = UINT16_MAX"
UDP_writeRet_noClamp(has, size) == IF ~has \/ size = 0 THEN 0 ELSE size

\* write(buffer, size) without its test of hasOutPacket_
UDP_writeRet_unguarded(has, size) ==
  IF size = 0 THEN 0 ELSE Min(size, UINT16_MAX)

\* write(buffer, size): the count returned, size clamped to UINT16_MAX
UDP_writeRet(has, size) ==
  IF ~has \/ size = 0 THEN 0 ELSE Min(size, UINT16_MAX)

\* The call write(buffer, size)
UDP_writeCall(buffer, size) ==
  /\ op' = "write"
  /\ tx' = NoTx
  /\ ret' = UDP_writeRet(hasOutPacket_, size)
  /\ outPacket_' = outPacket_ \o Take(buffer, ret')
  /\ given' = IF hasOutPacket_ THEN given \o Take(buffer, size) ELSE given
  /\ UNCHANGED <<inVars, pcbVars, hasOutPacket_, outIpaddr_, outPort_, dest>>

UDP_write ==
  \E buffer \in Buffers : \E size \in 0..Len(buffer) :
    /\ hasOutPacket_ => Len(outPacket_) + size <= MaxLen
    /\ UDP_writeCall(buffer, size)

\* write(buffer, size) with a long buffer, onto at most one byte staged
UDP_writeBig ==
  \E buffer \in BigBuffers, size \in BigSizes :
    /\ Len(outPacket_) <= 1
    /\ io' = [fn |-> "write", size |-> size]
    /\ UDP_writeCall(buffer, size)

\* ========================================================= EthernetFrameClass
finVars == <<inFrame_, frame_, framePos_>>
foutVars == <<hasOutFrame_, outFrame_, fgiven, hdr>>

\* What recvFunc leaves in inFrame_: clear(), then every segment appended.
Frame_recvStage(old, chain) == Stage(chain)

\* recvFunc, called by the stack through unknown_eth_protocol.
Frame_recvFunc ==
  \E m \in Messages : \E chain \in ChainsOf(m) :
    /\ op' = "Frame.recvFunc"
    /\ ret' = 0
    /\ tx' = NoTx
    /\ inFrame_' = Frame_recvStage(inFrame_, chain)
    /\ UNCHANGED <<frame_, framePos_, foutVars>>

\* parseFrame() returning early on an empty slot, frame_ left as it was
Frame_parseClaim_skipEmpty(in, old) == IF in = <<>> THEN old ELSE in

\* "frame_ = inFrame_": frame_ after the claim, `old` being frame_ before
Frame_parseClaim(in, old) == in

\* The cursor parseFrame leaves, from the size of the claimed frame_.
Frame_parsePos(size, pos) == IF size > 0 THEN 0 ELSE -1

\* parseFrame() with "inFrame_.clear()" after the call of loop()
Frame_slotAfterLoop_cleared(deliver, staged) == <<>>

\* inFrame_ when parseFrame() returns: cleared, then what recvFunc staged
\* during loop(), if it was called
Frame_slotAfterLoop(deliver, staged) == IF deliver THEN staged ELSE <<>>

\* parseFrame(): EthernetClass::loop() runs after the slot is claimed and
\* cleared, and may call recvFunc (none, or a last call with `chain`).
Frame_parseFrame ==
  \E deliver \in BOOLEAN, m \in Messages : \E chain \in ChainsOf(m) :
    /\ op' = "Frame.parseFrame"
    /\ tx' = NoTx
    /\ io' = [fn |-> "EthernetClass::loop", calls |-> 1,
              staged |-> IF deliver THEN <<m>> ELSE <<>>]
    /\ frame_' = Frame_parseClaim(inFrame_, frame_)
    /\ inFrame_' = Frame_slotAfterLoop(deliver, Frame_recvStage(<<>>, chain))
    /\ framePos_' = Frame_parsePos(Len(frame_'), framePos_)
    /\ ret' = Len(frame_')
    /\ UNCHANGED foutVars

Frame_isAvailable(frm, pos) == 0 <= pos /\ pos < Len(frm)

Frame_availableRet(frm, pos) ==
  IF ~Frame_isAvailable(frm, pos) THEN 0 ELSE Len(frm) - pos

Frame_available ==
  /\ op' = "Frame.available"
  /\ ret' = Frame_availableRet(frame_, framePos_)
  /\ tx' = NoTx
  /\ UNCHANGED frameVars

Frame_readRet(frm, pos) == IF ~Frame_isAvailable(frm, pos) THEN -1 ELSE frm[pos + 1]
Frame_readPos(frm, pos) == IF ~Frame_isAvailable(frm, pos) THEN pos ELSE pos + 1

Frame_read ==
  /\ op' = "Frame.read"
  /\ ret' = Frame_readRet(frame_, framePos_)
  /\ framePos_' = Frame_readPos(frame_, framePos_)
  /\ tx' = NoTx
  /\ UNCHANGED <<inFrame_, frame_, foutVars>>

Frame_readBufRet(frm, pos, len) ==
  IF len = 0 \/ ~Frame_isAvailable(frm, pos) THEN 0 ELSE Min(len, Len(frm) - pos)

\* read(buffer, len): what std::copy_n leaves in buffer
Frame_readBufCopy(frm, pos, len) ==
  SubSeq(frm, pos + 1, pos + Frame_readBufRet(frm, pos, len))

Frame_readBuf ==
  \E len \in 0..MaxLen :
    /\ op' = "Frame.readBuf"
    /\ io' = [fn |-> "read", len |-> len,
              buffer |-> Frame_readBufCopy(frame_, framePos_, len)]
    /\ ret' = Frame_readBufRet(frame_, framePos_, len)
    /\ framePos_' = framePos_ + Frame_readBufRet(frame_, framePos_, len)
    /\ tx' = NoTx
    /\ UNCHANGED <<inFrame_, frame_, foutVars>>

Frame_peekRet(frm, pos) == IF ~Frame_isAvailable(frm, pos) THEN -1 ELSE frm[pos + 1]
\* peek() assigns nothing: the cursor it leaves
Frame_peekPos(frm, pos) == pos

Frame_peek ==
  /\ op' = "Frame.peek"
  /\ ret' = Frame_peekRet(frame_, framePos_)
  /\ framePos_' = Frame_peekPos(frame_, framePos_)
  /\ tx' = NoTx
  /\ UNCHANGED <<inFrame_, frame_, foutVars>>

\* ------------------------------------------------------------- transmission
\* static_cast<uint8_t>(x)
u8(x) == x % 256

\* outFrame_ after write(b) / write(buffer, size), `has` being hasOutFrame_
Frame_writeByteTo(has, out, b) == IF ~has THEN out ELSE Append(out, b)
Frame_writeRet(has, size) ==
  IF ~has \/ size = 0 THEN 0 ELSE Min(size, UINT16_MAX)
Frame_writeTo(has, out, buffer, size) ==
  out \o Take(buffer, Frame_writeRet(has, size))

\* beginFrame(dstAddr, srcAddr, typeOrLength) writing the low byte of
\* typeOrLength before the high byte
Frame_header_lowFirst(dstAddr, srcAddr, typeOrLength) ==
  Frame_writeByteTo(TRUE,
    Frame_writeByteTo(TRUE,
      Frame_writeTo(TRUE, Frame_writeTo(TRUE, <<>>, dstAddr, 6), srcAddr, 6),
      u8(typeOrLength)),
    u8(typeOrLength \div 256))

\* outFrame_ after beginFrame(dstAddr, srcAddr, typeOrLength): beginFrame()
\* has set hasOutFrame_ and cleared outFrame_, then the four writes.
Frame_header(dstAddr, srcAddr, typeOrLength) ==
  Frame_writeByteTo(TRUE,
    Frame_writeByteTo(TRUE,
      Frame_writeTo(TRUE, Frame_writeTo(TRUE, <<>>, dstAddr, 6), srcAddr, 6),
      u8(typeOrLength \div 256)),
    u8(typeOrLength))

\* outFrame_ after beginVLANFrame(dstAddr, srcAddr, vlanInfo, typeOrLength)
Frame_vlanHeader(dstAddr, srcAddr, vlanInfo, typeOrLength) ==
  Frame_writeByteTo(TRUE,
    Frame_writeByteTo(TRUE,
      Frame_writeByteTo(TRUE,
        Frame_writeByteTo(TRUE,
          Frame_header(dstAddr, srcAddr, ETHTYPE_VLAN),
          u8(vlanInfo \div 256)),
        u8(vlanInfo)),
      u8(typeOrLength \div 256)),
    u8(typeOrLength))

\* beginFrame()
Frame_beginFrame ==
  /\ op' = "Frame.beginFrame"
  /\ ret' = 0
  /\ tx' = NoTx
  /\ hasOutFrame_' = TRUE
  /\ outFrame_' = <<>>
  /\ fgiven' = <<>>
  /\ hdr' = <<>>
  /\ UNCHANGED finVars

\* beginFrame(dstAddr, srcAddr, typeOrLength)
Frame_beginFrameHdr ==
  \E dstAddr \in MACs, srcAddr \in MACs, typeOrLength \in EtherTypes :
    /\ op' = "Frame.beginFrameHdr"
    /\ ret' = 0
    /\ tx' = NoTx
    /\ hasOutFrame_' = TRUE
    /\ outFrame_' = Frame_header(dstAddr, srcAddr, typeOrLength)
    /\ fgiven' = <<>>
    /\ hdr' = <<dstAddr, srcAddr, typeOrLength>>
    /\ UNCHANGED finVars

\* beginVLANFrame(dstAddr, srcAddr, vlanInfo, typeOrLength)
Frame_beginVLANFrame ==
  \E dstAddr \in MACs, srcAddr \in MACs, vlanInfo \in VLANInfos,
     typeOrLength \in EtherTypes :
    /\ op' = "Frame.beginVLANFrame"
    /\ ret' = 0
    /\ tx' = NoTx
    /\ hasOutFrame_' = TRUE
    /\ outFrame_' = Frame_vlanHeader(dstAddr, srcAddr, vlanInfo, typeOrLength)
    /\ fgiven' = <<>>
    /\ hdr' = <<dstAddr, srcAddr, vlanInfo, typeOrLength>>
    /\ UNCHANGED finVars

\* endFrame(): enet_output_frame reports success or failure.
Frame_endFrame ==
  \E sendOk \in BOOLEAN :
    /\ op' = "Frame.endFrame"
    /\ IF ~hasOutFrame_
         THEN /\ ret' = 0
              /\ tx' = NoTx
              /\ UNCHANGED <<hasOutFrame_, outFrame_>>
         ELSE /\ hasOutFrame_' = FALSE
              /\ tx' = [fn |-> "enet_output_frame", frame |-> outFrame_,
                        len |-> Len(outFrame_)]
              /\ outFrame_' = <<>>
              /\ ret' = IF sendOk THEN 1 ELSE 0
    /\ UNCHANGED <<finVars, fgiven, hdr>>

\* send(frame, len)
Frame_send ==
  \E frame \in Buffers, sendOk \in BOOLEAN :
    /\ op' = "Frame.send"
    /\ tx' = [fn |-> "enet_output_frame", frame |-> frame, len |-> Len(frame)]
    /\ ret' = IF sendOk THEN 1 ELSE 0
    /\ UNCHANGED frameVars

Frame_writeByte ==
  \E b \in Bytes :
    /\ hasOutFrame_ => Len(fgiven) < MaxLen
    /\ op' = "Frame.writeByte"
    /\ tx' = NoTx
    /\ ret' = IF ~hasOutFrame_ THEN 0 ELSE 1
    /\ outFrame_' = Frame_writeByteTo(hasOutFrame_, outFrame_, b)
    /\ fgiven' = IF hasOutFrame_ THEN Append(fgiven, b) ELSE fgiven
    /\ UNCHANGED <<finVars, hasOutFrame_, hdr>>

\* The call write(buffer, size)
Frame_writeCall(buffer, size) ==
  /\ op' = "Frame.write"
  /\ tx' = NoTx
  /\ ret' = Frame_writeRet(hasOutFrame_, size)
  /\ outFrame_' = Frame_writeTo(hasOutFrame_, outFrame_, buffer, size)
  /\ fgiven' = IF hasOutFrame_ THEN fgiven \o Take(buffer, size) ELSE fgiven
  /\ UNCHANGED <<finVars, hasOutFrame_, hdr>>

Frame_write ==
  \E buffer \in Buffers : \E size \in 0..Len(buffer) :
    /\ hasOutFrame_ => Len(fgiven) + size <= MaxLen
    /\ Frame_writeCall(buffer, size)

\* write(buffer, size) with a long buffer, onto at most one byte staged
Frame_writeBig ==
  \E buffer \in BigBuffers, size \in BigSizes :
    /\ Len(outFrame_) <= 1
    /\ io' = [fn |-> "write", size |-> size]
    /\ Frame_writeCall(buffer, size)

\* ============================================================ specification
\* The four parts of the state that no operation shares: an operation of
\* reception or of transmission writes the variables of its own part only
\* (and, on the datagram channel, the control block).  A part is idle
\* while it is as constructed.
UDPInIdle ==
  /\ inPacket_ = <<>> /\ packet_ = <<>> /\ packetPos_ = -1
  /\ inAddr_ = INADDR_NONE /\ inPort_ = 0
  /\ arrivals = 0 /\ latest = NoArrival /\ claimed = NoClaim
UDPOutIdle ==
  /\ hasOutPacket_ = FALSE /\ outIpaddr_ = IPADDR_ZERO /\ outPort_ = 0
  /\ outPacket_ = <<>> /\ given = <<>> /\ dest = <<>>
FrameInIdle == inFrame_ = <<>> /\ frame_ = <<>> /\ framePos_ = -1
FrameOutIdle ==
  hasOutFrame_ = FALSE /\ outFrame_ = <<>> /\ fgiven = <<>> /\ hdr = <<>>
FrameIdle == FrameInIdle /\ FrameOutIdle
LookupIdle ==
  /\ lookupHost_ = "" /\ lookupIP_ = INADDR_NONE /\ lookupFound_ = FALSE
  /\ dnsPending = {}
UDPIdle == UDPInIdle /\ UDPOutIdle /\ LookupIdle /\ pcb_ = NULL
\* The application thread is between operations, and the operation it makes
\* next runs to its end.
Whole == pc = "idle" /\ UNCHANGED threadVars
\* The operation leaves nothing in io.
Quiet == io' = NoIo

\* A run drives one part and leaves the other three as constructed.  The
\* parts share no variable, so the states a part reaches this way are the
\* states it reaches in any interleaving with the others.
UDPPcbTurn ==
  Whole /\ FrameIdle /\ UNCHANGED <<frameVars, lookupVars>> /\ Quiet
UDPInFocus ==
  /\ Whole /\ FrameIdle /\ UDPOutIdle /\ LookupIdle
  /\ UNCHANGED <<frameVars, lookupVars>>
UDPInTurn == UDPInFocus /\ Quiet
UDPOutFocus ==
  /\ Whole /\ FrameIdle /\ UDPInIdle /\ LookupIdle
  /\ UNCHANGED <<frameVars, lookupVars>>
UDPOutTurn == UDPOutFocus /\ Quiet
FrameInFocus ==
  Whole /\ UDPIdle /\ FrameOutIdle /\ UNCHANGED <<udpVars, lookupVars>>
FrameInTurn == FrameInFocus /\ Quiet
FrameOutFocus ==
  Whole /\ UDPIdle /\ FrameInIdle /\ UNCHANGED <<udpVars, lookupVars>>
FrameOutTurn == FrameOutFocus /\ Quiet

\* The operations on the control block alone.
UDPPcbNext ==
  \/ UDPPcbTurn /\ UDP_begin
  \/ UDPPcbTurn /\ UDP_beginMulticast
  \/ UDPPcbTurn /\ UDP_stop
  \/ UDPPcbTurn /\ UDP_recvFuncNull

\* Reception on the datagram channel.
UDPInNext ==
  \/ UDPInTurn /\ UDP_recvFunc
  \/ UDPInTurn /\ UDP_parsePacket
  \/ UDPInTurn /\ UDP_available
  \/ UDPInTurn /\ UDP_read
  \/ UDPInFocus /\ UDP_readBuf
  \/ UDPInTurn /\ UDP_peek
  \/ UDPInTurn /\ UDP_flush
  \/ UDPInTurn /\ UDP_remoteIP
  \/ UDPInTurn /\ UDP_remotePort

\* Transmission on the datagram channel.
UDPOutNext ==
  \/ UDPOutTurn /\ UDP_beginPacket
  \/ UDPOutTurn /\ UDP_endPacket
  \/ UDPOutTurn /\ UDP_writeByte
  \/ UDPOutTurn /\ UDP_write

\* Reception on the raw frame channel.
FrameInNext ==
  \/ FrameInTurn /\ Frame_recvFunc
  \/ FrameInFocus /\ Frame_parseFrame
  \/ FrameInTurn /\ Frame_available
  \/ FrameInTurn /\ Frame_read
  \/ FrameInFocus /\ Frame_readBuf
  \/ FrameInTurn /\ Frame_peek

\* Transmission on the raw frame channel.
FrameOutNext ==
  \/ FrameOutTurn /\ Frame_beginFrame
  \/ FrameOutTurn /\ Frame_beginFrameHdr
  \/ FrameOutTurn /\ Frame_beginVLANFrame
  \/ FrameOutTurn /\ Frame_endFrame
  \/ FrameOutTurn /\ Frame_send
  \/ FrameOutTurn /\ Frame_writeByte
  \/ FrameOutTurn /\ Frame_write

\* Name resolution on the datagram channel: beginPacket(host, port), the
\* resolver's callbacks, and a null-buffer receive callback while the call
\* waits.  The outbound staging is as constructed before the first of
\* these calls, and as these calls leave it afterwards.
UDPLookupFocus ==
  /\ FrameIdle /\ UDPInIdle /\ outPacket_ = <<>> /\ given = <<>>
  /\ lookupHost_ = "" => UDPOutIdle
UDPLookupStep == UDPLookupFocus /\ UDP_beginPacketWait
UDPLookupNext ==
  \/ UDPLookupFocus /\ UDP_beginPacketHost
  \/ UDPLookupStep
  \/ UDPLookupFocus /\ UDP_dnsFoundFunc
  \/ /\ UDPLookupFocus /\ pc = "beginPacket.wait"
     /\ UNCHANGED <<threadVars, lookupVars, frameVars>> /\ Quiet
     /\ UDP_recvFuncNull

Next ==
  \/ UDPPcbNext \/ UDPInNext \/ UDPOutNext \/ UDPLookupNext
  \/ FrameInNext \/ FrameOutNext

Spec == Init /\ [][Next]_vars

\* The datagram channel's control block and transmission alone, and the raw
\* frame channel alone: the runs of Spec that drive those parts.
UDPOutOnly == UDPPcbNext \/ UDPOutNext
SpecUDPOut == Init /\ [][UDPOutOnly]_vars
FrameOnly == FrameInNext \/ FrameOutNext
SpecFrame == Init /\ [][FrameOnly]_vars

\* Name resolution alone.  delay(10) returns, so a call that waits in the
\* do-loop takes its next turn.
LookupOnly == UDPPcbNext \/ UDPLookupNext
SpecLookup == Init /\ [][LookupOnly]_vars /\ WF_vars(UDPLookupStep)

\* Reception on the datagram channel with recvFunc called from an interrupt:
\* the callback runs to its end between any two statements of parsePacket().
UDPIrqFocus ==
  /\ FrameIdle /\ UDPOutIdle /\ LookupIdle
  /\ UNCHANGED <<frameVars, lookupVars>>
Interrupted ==
  \/ UDPPcbTurn /\ UDP_begin
  \/ UDPIrqFocus /\ Quiet /\ UNCHANGED threadVars /\ UDP_recvFunc
  \/ UDPIrqFocus /\ UDP_parsePacket_enter
  \/ UDPIrqFocus /\ UDP_parsePacket_copy
  \/ UDPIrqFocus /\ UDP_parsePacket_clear
  \/ UDPIrqFocus /\ UDP_parsePacket_return
SpecIrq == Init /\ [][Interrupted]_vars

\* Staging and single long writes on both channels: the runs in which
\* write(buffer, size) is given the long buffers.
LongWrites ==
  \/ UDPOutTurn /\ UDP_beginPacket
  \/ UDPOutTurn /\ UDP_writeByte
  \/ UDPOutFocus /\ UDP_writeBig
  \/ UDPOutTurn /\ UDP_endPacket
  \/ FrameOutTurn /\ Frame_beginFrame
  \/ FrameOutTurn /\ Frame_writeByte
  \/ FrameOutFocus /\ Frame_writeBig
  \/ FrameOutTurn /\ Frame_endFrame
SpecWrite == Init /\ [][LongWrites]_vars

\* ================================================================ properties
RECURSIVE UDP_drain(_, _)
\* The bytes successive read() calls return until the first -1.
UDP_drain(pkt, pos) ==
  IF UDP_readRet(pkt, pos) = -1
    THEN <<>>
    ELSE <<UDP_readRet(pkt, pos)>> \o UDP_drain(pkt, UDP_readPos(pkt, pos))

\* C1: when endPacket() hands a datagram to udp_sendto after the bytes B
\* (nonempty) were written since beginPacket(), the pbuf it hands over is not
\* null and holds exactly B, in order.
C1_PayloadIsWhatWasWritten ==
  (op = "endPacket" /\ tx.fn = "udp_sendto" /\ Len(given) > 0)
    => (~tx.p.null /\ tx.p.data = given)

\* C2: the address and the port endPacket() passes to udp_sendto are the
\* address and the port given to the most recent beginPacket(address, port).
C2_SentToStagedDestination ==
  (op = "endPacket" /\ tx.fn = "udp_sendto")
    => (tx.addr = dest[1] /\ tx.port = dest[2])

\* C3: after beginFrame(dst, src, typeOrLength), writes of payload P and
\* endFrame(), enet_output_frame receives dst, src, the high byte and the low
\* byte of typeOrLength, then P, and the length 14 + Len(P).
C3_FrameIsHeaderThenPayload ==
  (op = "Frame.endFrame" /\ tx.fn = "enet_output_frame" /\ Len(hdr) = 3)
    => /\ tx.frame = hdr[1] \o hdr[2]
                       \o <<hdr[3] \div 256, hdr[3] % 256>> \o fgiven
       /\ tx.len = 14 + Len(fgiven)
       /\ Len(hdr[1]) = 6 /\ Len(hdr[2]) = 6

C3_Witness ==
  /\ op = "Frame.endFrame" /\ tx.fn = "enet_output_frame"
  /\ Len(hdr) = 3 /\ hdr[1] # hdr[2] /\ hdr[3] = 2048
  /\ fgiven = <<170, 187>>

\* What C4 says a parsePacket() after two arrivals leaves: the length of the
\* later arrival returned, its bytes the ones the reads yield, its sender the
\* one remoteIP() and remotePort() report.
C4_LatestClaimed ==
  /\ ret' = Len(latest.data)
  /\ UDP_drain(packet_', packetPos_') = latest.data
  /\ inAddr_' = latest.addr
  /\ inPort_' = latest.port

C5_RemoteIsClaimedSender ==
  /\ (op = "remoteIP" /\ claimed # NoClaim) => ret = claimed.addr
  /\ (op = "remotePort" /\ claimed # NoClaim) => ret = claimed.port

\* C6: a parsePacket() that claims no packet returns 0 and leaves the cursor
\* at -1, so that available() is 0 and read() and peek() return -1; one that
\* claims a packet leaves the cursor at 0 and returns the packet's length.
C6_ParsePacketSetsCursor ==
  op = "parsePacket" =>
    IF claimed = NoClaim
      THEN /\ ret = 0
           /\ packetPos_ = -1
           /\ UDP_availableRet(packet_, packetPos_) = 0
           /\ UDP_readRet(packet_, packetPos_) = -1
           /\ UDP_peekRet(packet_, packetPos_) = -1
      ELSE /\ packetPos_ = 0
           /\ ret = Len(claimed.data)

\* C7: a parseFrame() that finds the inbound slot empty returns 0, and after
\* it available() returns 0 and read() and peek() return -1, whatever was
\* left unread of the frame claimed before.
C7_ParseFrameOfNothing ==
  [][(op' = "Frame.parseFrame" /\ inFrame_ = <<>>)
       => /\ ret' = 0
          /\ Frame_availableRet(frame_', framePos_') = 0
          /\ Frame_readRet(frame_', framePos_') = -1
          /\ Frame_peekRet(frame_', framePos_') = -1]_vars

\* parseFrame() has returned 0 and its loop() call has staged a frame.
C7_Witness ==
  op = "Frame.parseFrame" /\ ret = 0 /\ frame_ = <<>> /\ inFrame_ # <<>>

\* C8: on both channels peek() leaves the cursor and the message as they
\* were; a peek() or a read() directly after a peek() returns what that
\* peek() returned; and that read() advances the cursor by one exactly when
\* it returns a byte.
C8_PeekThenRead ==
  [][/\ op' = "peek" => (packetPos_' = packetPos_ /\ packet_' = packet_)
     /\ (op = "peek" /\ op' = "peek") => ret' = ret
     /\ (op = "peek" /\ op' = "read")
          => /\ ret' = ret
             /\ packetPos_' = IF ret' = -1 THEN packetPos_ ELSE packetPos_ + 1
     /\ op' = "Frame.peek" => (framePos_' = framePos_ /\ frame_' = frame_)
     /\ (op = "Frame.peek" /\ op' = "Frame.peek") => ret' = ret
     /\ (op = "Frame.peek" /\ op' = "Frame.read")
          => /\ ret' = ret
             /\ framePos_' = IF ret' = -1 THEN framePos_ ELSE framePos_ + 1]_vars

\* A peek() has returned the second byte of a two-byte packet.
C8_Witness ==
  op = "peek" /\ packetPos_ = 1 /\ Len(packet_) = 2 /\ ret = packet_[2]

\* C9: a begin() or beginMulticast() that fails on a channel that held no
\* control block leaves the channel without one, and none allocated.
C9_FailedBeginLeavesNoPcb ==
  [][(pcb_ = NULL /\ op' \in {"begin", "beginMulticast"} /\ ret' = 0)
       => (pcb_' = NULL /\ livePcbs' = livePcbs)]_vars

\* What C10 says of a write() or an endPacket() made while staging is not
\* open: it returns 0, changes neither the outbound buffer nor the staged
\* destination, and hands nothing to the stack.
C10_NoOp ==
  /\ ret' = 0
  /\ outPacket_' = outPacket_
  /\ outIpaddr_' = outIpaddr_ /\ outPort_' = outPort_
  /\ tx' = NoTx

\* C10 as stated: staging is not open before any beginPacket(), after an
\* endPacket(), and after a beginPacket() that failed.
C10_ClosedAsStated ==
  [][((~hasOutPacket_ \/ (op = "beginPacket" /\ ret = 0))
        /\ op' \in {"write", "writeByte", "endPacket"}) => C10_NoOp]_vars

\* C10 as amended: whenever hasOutPacket_ is false (before any beginPacket()
\* has succeeded, and after an endPacket()), write() returns 0 and
\* endPacket() returns failure, and neither changes the outbound buffer or
\* the staged destination or calls udp_sendto.
C10_ClosedIsNoOp ==
  [][(~hasOutPacket_ /\ op' \in {"write", "writeByte", "endPacket"})
       => C10_NoOp]_vars

\* A write() has been refused after an endPacket() closed the staging.
C10_Witness ==
  /\ op \in {"write", "writeByte"} /\ ret = 0
  /\ ~hasOutPacket_ /\ dest # <<>> /\ Len(given) > 0

\* C11: on both channels a write(buffer, size) made while staging is open
\* appends the first 65535 bytes of buffer and returns 65535 when size is
\* above 65535, and appends the first size bytes and returns size otherwise
\* (the bytes buffer[0..size) are the ones the call adds to given / fgiven).
C11_WriteClampsTo65535 ==
  [][/\ (op' = "write" /\ io'.fn = "write" /\ hasOutPacket_)
          => LET n == IF io'.size > 65535 THEN 65535 ELSE io'.size
             IN /\ ret' = n
                /\ Len(given') = Len(given) + io'.size
                /\ outPacket_' =
                     outPacket_ \o SubSeq(given', Len(given) + 1, Len(given) + n)
     /\ (op' = "Frame.write" /\ io'.fn = "write" /\ hasOutFrame_)
          => LET n == IF io'.size > 65535 THEN 65535 ELSE io'.size
             IN /\ ret' = n
                /\ Len(fgiven') = Len(fgiven) + io'.size
                /\ outFrame_' =
                     outFrame_ \o SubSeq(fgiven', Len(fgiven) + 1, Len(fgiven) + n)]_vars

\* A write of 65536 bytes onto one staged byte has returned 65535.
C11_Witness ==
  /\ op = "write" /\ io.fn = "write" /\ io.size = 65536 /\ ret = 65535
  /\ hasOutPacket_ /\ Len(outPacket_) = 65536 /\ Len(given) = 65537
  /\ outPacket_[65536] = given[65536]

\* C12: every stop() (the one a null-buffer receive callback makes included)
\* leaves the channel without a control block; made on a channel without
\* one (never opened, or just stopped) it releases nothing; made on a
\* channel with one it releases that block, once: the stack never has a
\* block released that is not live, and none stays live after stop().
C12_StopIsIdempotent ==
  [][/\ livePcbs' >= 0
     /\ op' \in {"stop", "recvFuncNull"}
          => /\ pcb_' = NULL
             /\ livePcbs' = 0
             /\ pcb_ = NULL => livePcbs' = livePcbs
             /\ pcb_ # NULL => livePcbs' = livePcbs - 1]_vars

\* A stop() has released the channel's block while staging was open.
C12_Witness ==
  op = "stop" /\ pcb_ = NULL /\ livePcbs = 0 /\ hasOutPacket_ /\ dest # <<>>

\* The step is the one in which beginPacket(host, port) gets ERR_OK.
C13_Cached ==
  op' = "beginPacketHost" /\ io'.fn = "dns_gethostbyname" /\ io'.err = "ERR_OK"

\* The step is a turn of the do-loop of a waiting beginPacket(host, port).
C13_WaitTurn ==
  pc = "beginPacket.wait" /\ op' \in {"beginPacketHost", "beginPacketHost.wait"}

\* What C13 says of a request in progress whose callback does not publish
\* an address: while less than 2000 ms have elapsed the call keeps waiting;
\* once 2000 ms have elapsed it returns failure and has opened no staging;
\* and a call that waits returns.
C13_TimesOut ==
  /\ [][(C13_WaitTurn /\ ~lookupFound_)
          => IF timer + 10 < 2000
               THEN pc' = "beginPacket.wait" /\ timer' = timer + 10
               ELSE /\ pc' = "idle" /\ ret' = 0
                    /\ UNCHANGED <<pcb_, outVars>>]_vars
  /\ [](timer <= 2000)
  /\ (pc = "beginPacket.wait") ~> (pc = "idle")

\* C13 as stated: a beginPacket(host, port) that gets ERR_OK opens staging
\* to the returned address without waiting.
C13_CachedAlwaysOpens ==
  /\ [][C13_Cached
          => /\ pc' = "idle" /\ timer' = 0
             /\ ret' = 1 /\ hasOutPacket_' /\ outIpaddr_' = HostAddr(io'.host)]_vars
  /\ C13_TimesOut

\* C13 as amended: a beginPacket(host, port) that gets ERR_OK does not
\* wait; it opens staging to the returned address when the channel holds a
\* control block or udp_new() provides one, and returns failure with the
\* staging as it was otherwise.  A request in progress whose callback
\* publishes no address ends in failure when 2000 ms have elapsed, polled
\* every 10 ms, with no staging opened; no call waits for ever.
C13_CachedOpensGivenPcb ==
  /\ [][C13_Cached
          => /\ pc' = "idle" /\ timer' = 0
             /\ IF pcb_' # NULL
                  THEN /\ ret' = 1 /\ hasOutPacket_'
                       /\ outIpaddr_' = HostAddr(io'.host)
                  ELSE ret' = 0 /\ UNCHANGED outVars]_vars
  /\ C13_TimesOut

\* A beginPacket(host, port) has returned failure after 2000 ms, the
\* resolver's answer still outstanding.
C13_Witness ==
  /\ op = "beginPacketHost" /\ ret = 0 /\ pc = "idle"
  /\ io.fn = "elapsedMillis" /\ io.timer = 2000
  /\ ~lookupFound_ /\ lookupHost_ \in dnsPending /\ ~hasOutPacket_

\* C14: a resolver callback for a host name other than the one of the
\* pending request changes neither the resolved address nor the found flag,
\* and a beginPacket(host, port) that opens staging opens it to the address
\* of `host`.
C14_StaleNameIgnored ==
  [][/\ (op' = "dnsFoundFunc" /\ io'.name # lookupHost_)
          => UNCHANGED <<lookupIP_, lookupFound_>>
     /\ (op' = "beginPacketHost" /\ ret' = 1)
          => (hasOutPacket_' /\ outIpaddr_' = HostAddr(lookupHost_'))]_vars

\* The answer to an abandoned request has arrived with an address while a
\* request for another name waits, and has published nothing.
C14_Witness ==
  /\ op = "dnsFoundFunc" /\ io.found /\ io.name # lookupHost_
  /\ pc = "beginPacket.wait" /\ lookupIP_ = INADDR_NONE /\ ~lookupFound_

\* C15: with the receive callback free to run between any two statements of
\* parsePacket(), a parsePacket() on a channel with a control block ends as
\* if every callback had run before it or after it: with no callback since
\* it began it has claimed the slot as it was and left it empty; with one
\* or more it has either claimed the last arrival and left the slot empty,
\* or left the last arrival in the slot (having claimed, when there was
\* one callback, the slot as it was at the beginning); and it returns the
\* length of what it claimed.
C15_ClaimIsAtomic ==
  [][(pc = "parsePacket.return" /\ op' = "parsePacket")
       => /\ ret' = Len(packet_')
          /\ arrivals = 0 => (packet_' = entry /\ inPacket_' = <<>>)
          /\ arrivals = 1
               => \/ packet_' = latest.data /\ inPacket_' = <<>>
                  \/ packet_' = entry /\ inPacket_' = latest.data
          /\ arrivals = 2
               => \/ packet_' = latest.data /\ inPacket_' = <<>>
                  \/ inPacket_' = latest.data]_vars

\* What C16 says of flush() itself: the cursor is -1 afterwards, so that
\* available() is 0 and read() and peek() return -1, and the inbound slot,
\* its sender, the outbound staging and the control block are as before.
C16_FlushOnlyDropsCursor ==
  op' = "flush"
    => /\ packetPos_' = -1
       /\ UDP_availableRet(packet_', packetPos_') = 0
       /\ UDP_readRet(packet_', packetPos_') = -1
       /\ UDP_peekRet(packet_', packetPos_') = -1
       /\ UNCHANGED <<inPacket_, inAddr_, inPort_, outVars, pcbVars>>

\* The parsePacket() made next after a flush() returns in full the arrival
\* that was in the slot.
C16_StagedIsReturned ==
  /\ ret' = Len(latest.data)
  /\ packet_' = latest.data
  /\ UDP_drain(packet_', packetPos_') = latest.data

C17_Unread(msg, pos) == IF 0 <= pos /\ pos < Len(msg) THEN Len(msg) - pos ELSE 0

RECURSIVE C17_UDPDrainBuf(_, _, _)
\* What successive read(buffer, len) calls copy until the first returns 0.
C17_UDPDrainBuf(pkt, pos, len) ==
  IF UDP_readBufRet(pkt, pos, len) = 0
    THEN <<>>
    ELSE UDP_readBufCopy(pkt, pos, len)
           \o C17_UDPDrainBuf(pkt, pos + UDP_readBufRet(pkt, pos, len), len)

RECURSIVE C17_FrameDrainBuf(_, _, _)
C17_FrameDrainBuf(frm, pos, len) ==
  IF Frame_readBufRet(frm, pos, len) = 0
    THEN <<>>
    ELSE Frame_readBufCopy(frm, pos, len)
           \o C17_FrameDrainBuf(frm, pos + Frame_readBufRet(frm, pos, len), len)

\* C17: on both channels read(buffer, len) copies the min(len, available())
\* bytes at the cursor, in order, advances the cursor by that count and
\* returns it, and changes nothing when the count is 0; read() returns -1
\* and changes nothing when nothing is available; and the reads that follow
\* the claim of a message, of any one len or of one byte each, yield its
\* bytes once each in order, and then 0 (or -1).
C17_ReadCopiesFromCursor ==
  [][/\ op' = "readBuf"
          => LET n == Min(io'.len, C17_Unread(packet_, packetPos_))
             IN /\ ret' = n
                /\ io'.buffer = [i \in 1..n |-> packet_[packetPos_ + i]]
                /\ packetPos_' = packetPos_ + n
                /\ packet_' = packet_
                /\ n = 0 => packetPos_' = packetPos_
     /\ (op' = "read" /\ C17_Unread(packet_, packetPos_) = 0)
          => (ret' = -1 /\ packetPos_' = packetPos_ /\ packet_' = packet_)
     /\ (op' = "parsePacket" /\ ret' > 0)
          => /\ \A len \in 1..MaxLen :
                  C17_UDPDrainBuf(packet_', packetPos_', len) = packet_'
             /\ UDP_drain(packet_', packetPos_') = packet_'
     /\ op' = "Frame.readBuf"
          => LET n == Min(io'.len, C17_Unread(frame_, framePos_))
             IN /\ ret' = n
                /\ io'.buffer = [i \in 1..n |-> frame_[framePos_ + i]]
                /\ framePos_' = framePos_ + n
                /\ frame_' = frame_
                /\ n = 0 => framePos_' = framePos_
     /\ (op' = "Frame.read" /\ C17_Unread(frame_, framePos_) = 0)
          => (ret' = -1 /\ framePos_' = framePos_ /\ frame_' = frame_)
     /\ (op' = "Frame.parseFrame" /\ ret' > 0)
          => \A len \in 1..MaxLen :
               C17_FrameDrainBuf(frame_', framePos_', len) = frame_']_vars

\* A read(buffer, 2) with one byte left has copied that byte and returned 1.
C17_Witness ==
  /\ op = "readBuf" /\ io.fn = "read" /\ io.len = 2 /\ ret = 1
  /\ Len(packet_) = 2 /\ packetPos_ = 2 /\ io.buffer = <<packet_[2]>>
  /\ packet_[1] # packet_[2]

\* C18: parseFrame() calls EthernetClass::loop() once, after it has claimed
\* and cleared the slot: it returns the frame the slot held when it was
\* called, a frame the receive hook stages during loop() is in the slot
\* when parseFrame() returns, and a parseFrame() made next returns that
\* frame.
C18_LoopAfterClaim ==
  [][/\ op' = "Frame.parseFrame"
          => /\ io'.fn = "EthernetClass::loop" /\ io'.calls = 1
             /\ frame_' = inFrame_
             /\ ret' = Len(inFrame_)
             /\ inFrame_' = IF io'.staged = <<>> THEN <<>> ELSE io'.staged[1]
     /\ (op = "Frame.parseFrame" /\ op' = "Frame.parseFrame"
           /\ io.staged # <<>>)
          => (frame_' = io.staged[1] /\ ret' = Len(io.staged[1]))]_vars

\* A parseFrame() has returned a one-byte frame while the hook staged a
\* two-byte frame during its loop() call.
C18_Witness ==
  /\ op = "Frame.parseFrame" /\ ret = 1 /\ Len(frame_) = 1
  /\ io.staged # <<>> /\ Len(inFrame_) = 2 /\ inFrame_ = io.staged[1]

\* C19: udp_sendto is never called with a null control block.
C19_SendtoHasPcb ==
  tx.fn = "udp_sendto" => tx.pcb # NULL

\* C20: on both channels the cursor is -1 or between 0 and the length of
\* the active message, so that available() is not negative and read() and
\* peek() index inside the message.
C20_CursorInRange ==
  /\ packetPos_ = -1 \/ (0 <= packetPos_ /\ packetPos_ <= Len(packet_))
  /\ framePos_ = -1 \/ (0 <= framePos_ /\ framePos_ <= Len(frame_))
  /\ UDP_availableRet(packet_, packetPos_) >= 0
  /\ Frame_availableRet(frame_, framePos_) >= 0
  /\ UDP_isAvailable(packet_, packetPos_) => packetPos_ + 1 \in DOMAIN packet_
  /\ Frame_isAvailable(frame_, framePos_) => framePos_ + 1 \in DOMAIN frame_

\* The reads have taken the cursor to the end of a two-byte packet.
C20_Witness ==
  op = "read" /\ ret # -1 /\ Len(packet_) = 2 /\ packetPos_ = 2

====
